---- MODULE Spec2Model ----
(***************************************************************************)
(* The client-side synchronisation engine of the chat application:         *)
(* ConversationProvider (contexts/ConversationContext.tsx, the file        *)
(* src/unnamed/part_007) and StreamManager (lib/streaming.ts, the file     *)
(* src/unnamed/part_010), together with the remote conversation service    *)
(* they talk to.                                                           *)
(*                                                                         *)
(* React state is modelled by the variables conversations,                 *)
(* activeConversation, currentSession, isGenerating and lastSeenItemId.    *)
(* Every asynchronous operation is split at its awaits; the values a       *)
(* callback closes over (useCallback dependencies) are stored in the       *)
(* record of the operation in flight, because the code reads them again    *)
(* after the await.                                                        *)
(***************************************************************************)
EXTENDS Integers, Sequences, FiniteSets, TLC

(***************************************************************************)
(* Bounds of the model.                                                    *)
(***************************************************************************)
MaxSends == 2
MaxPolls == 1
MaxLoads == 2
MaxDeletes == 2
MaxOverlap == 2
MaxRemoves == 2

(***************************************************************************)
(* Program constants.                                                      *)
(***************************************************************************)
SigLen == 100
UuidLen == 36

(***************************************************************************)
(* Identifiers.  A local identifier is a crypto.randomUUID() string (36    *)
(* characters, with dashes); the service assigns item identifiers and      *)
(* response identifiers (no dashes).  An identifier is modelled by its     *)
(* kind and a serial number; the string tests of the code become tests on  *)
(* the kind.                                                               *)
(***************************************************************************)
NoId == [k |-> "none", n |-> 0]
Uuid(n) == [k |-> "uuid", n |-> n]
ItemId(n) == [k |-> "item", n |-> n]
RespId(n) == [k |-> "resp", n |-> n]

IncludesDash(id) == id.k = "uuid"
StartsWithItem(id) == id.k = "item"
IdLength(id) == IF id.k = "uuid" THEN UuidLen ELSE UuidLen - 1

\* deleteMessage: !id.includes('-') || id.startsWith('item_')
IsServerId(id) == ~IncludesDash(id) \/ StartsWithItem(id)
\* pollForNewItems: msg.id.includes('-') && msg.id.length === 36
IsLocalUuid(id) == IncludesDash(id) /\ IdLength(id) = UuidLen

(***************************************************************************)
(* Text.  A text is a sequence of characters (small numbers).              *)
(***************************************************************************)
Min(a, b) == IF a < b THEN a ELSE b
Substring(s, n) == SubSeq(s, 1, Min(n, Len(s)))
Ones(n) == [i \in 1..n |-> 1]

Msg(id, role, content, status) ==
  [id |-> id, role |-> role, content |-> content, status |-> status]

NoConv == 0
NoSession == [conversationId |-> NoConv, messages |-> <<>>]
HasSession(s) == s.conversationId # NoConv

(***************************************************************************)
(* The remote service.  Conversations are numbered; conversation 1 exists  *)
(* before the application starts and holds one finished exchange.          *)
(***************************************************************************)
MaxConvs == 2
ConvIds == 1..MaxConvs

UserText == <<7>>
InitialItems == << Msg(ItemId(1), "user", <<5>>, "complete"),
                   Msg(ItemId(2), "assistant", <<6>>, "complete") >>

(***************************************************************************)
(* Stream scripts: the server-sent-event frames of one generation, as      *)
(* StreamManager.startStream sees them after SSEParser.  hasId says        *)
(* whether the frame carries item_id.                                      *)
(***************************************************************************)
Frame(type, delta, hasId) == [type |-> type, delta |-> delta, hasId |-> hasId]
Scripts ==
  { << Frame("response.output_text.delta", Ones(SigLen), TRUE),
       Frame("response.output_text.delta", <<8>>, TRUE),
       Frame("response.completed", <<>>, FALSE) >>,
    << Frame("response.created", <<>>, FALSE),
       Frame("response.output_text.delta", <<9>>, FALSE),
       Frame("response.output_item.done", <<>>, FALSE),
       Frame("response.completed", <<>>, FALSE) >> }

RECURSIVE ScriptText(_)
ScriptText(script) ==
  IF script = <<>> THEN <<>>
  ELSE (IF Head(script).type = "response.output_text.delta"
        THEN Head(script).delta ELSE <<>>) \o ScriptText(Tail(script))

VARIABLES
  conversations,       \* useState<Conversation[]>: the directory, newest first
  activeConversation,  \* useState<string>: the active pointer (NoConv = undefined)
  currentSession,      \* useState<ActiveSession> (NoSession = undefined)
  isGenerating,        \* useState(false)
  lastSeenItemId,      \* useState<string | undefined>: the polling watermark
  smAbort,             \* StreamManager.abortController: "null" or "live"
  reqAbort,            \* abortControllerRef.current: "none", "live", "aborted"
  send,                \* the sendMessage call in flight and its closure
  polls,               \* the pollForNewItems calls in flight
  del,                 \* the deleteMessage call in flight and its closure
  load,                \* the loadConversation call in flight
  srvConvs,            \* service: the conversations that exist
  srvItems,            \* service: the item list of each conversation
  pending,             \* service: generations whose item is not yet listed
  next,                \* serial numbers: items, uuids, responses, conversations
  count,               \* calls made so far (bounded by the Max... bounds)
  hist,                \* history of the current send (read by the properties only)
  sse,                 \* an SSEParser, the text it is fed and the frames it gave
  pager,               \* an OpenAIClient.getConversationItems call and the pages it was served
  delConv,             \* the deleteConversation call in flight and its closure
  titleJobs,           \* the generateTitle call of each conversation
  timer                \* the polling effect: intervals scheduled, pollingIntervalRef, last dependencies

vars == << conversations, activeConversation, currentSession, isGenerating,
           lastSeenItemId, smAbort, reqAbort, send, polls, del, load,
           srvConvs, srvItems, pending, next, count, hist, sse, pager, delConv, titleJobs, timer >>

IdleSend ==
  [pc |-> "idle", conversationId |-> NoConv, content |-> <<>>, streaming |-> FALSE,
   userMessageId |-> NoId, localAssistantId |-> NoId, serverItemId |-> NoId,
   itemId |-> NoId, script |-> <<>>, pos |-> 0]
IdleDel == [pc |-> "idle", messageId |-> NoId, conv |-> NoConv, msgs |-> <<>>,
            wm |-> NoId, outcome |-> "none"]
IdleLoad == [pc |-> "idle", id |-> NoConv]
NoHist == [result |-> "none", failure |-> "none", cancelled |-> FALSE,
           readFailed |-> FALSE,
           onError |-> FALSE,
           errAfterCancel |-> FALSE, polled |-> FALSE, pollFailed |-> FALSE]

\* new SSEParser(): the buffer is empty; no text has arrived
IdleSse == [text |-> <<>>, pos |-> 0, buffer |-> <<>>, chunks |-> <<>>,
            threw |-> FALSE, split |-> FALSE]

\* no generateTitle call has been made
NoTitleJobs == [c \in ConvIds |-> "none"]

\* no deleteConversation call is running; n counts the calls made
IdleDelConv == [pc |-> "idle", id |-> NoConv, active |-> NoConv, n |-> 0,
                outcome |-> "none"]

\* no getConversationItems call is running
IdlePager == [pc |-> "idle", id |-> NoConv, after |-> NoId, limit |-> 0,
              allItems |-> <<>>, currentLastId |-> NoId, hasMore |-> FALSE,
              pages |-> <<>>, result |-> [set |-> FALSE]]
\* the dependencies of the polling effect: activeConversation, and the
\* state pollForNewItems closes over (client is configured throughout)
EffectDeps(conv, after, gen, session) ==
  [conv |-> conv, after |-> after, gen |-> gen, session |-> session]
\* after the first render: no active conversation, no interval
IdleTimer ==
  [pc |-> "idle", scheduled |-> {}, ref |-> 0,
   deps |-> EffectDeps(NoConv, NoId, FALSE, NoSession)]

InitClient ==
  /\ conversations = <<>>
  /\ activeConversation = NoConv
  /\ currentSession = NoSession
  /\ isGenerating = FALSE
  /\ lastSeenItemId = NoId
  /\ smAbort = "null"
  /\ reqAbort = "none"
  /\ send = IdleSend
  /\ polls = {}
  /\ del = IdleDel
  /\ load = IdleLoad
  /\ count = [sends |-> 0, loads |-> 0, deletes |-> 0]
  /\ hist = NoHist
  /\ timer = IdleTimer

InitService ==
  /\ srvConvs = {1}
  /\ srvItems = [c \in ConvIds |-> IF c = 1 THEN InitialItems ELSE <<>>]
  /\ pending = {}
  /\ next = [item |-> 3, uuid |-> 1, resp |-> 1, conv |-> 2]

InitEngine == InitClient /\ InitService

Init ==
  /\ InitEngine
  /\ sse = IdleSse /\ pager = IdlePager /\ delConv = IdleDelConv
  /\ titleJobs = NoTitleJobs

(***************************************************************************)
(* Directory helpers: setConversations(prev => prev.map(...)).             *)
(***************************************************************************)
SetStatus(convs, id, status) ==
  [i \in DOMAIN convs |->
     IF convs[i].id = id THEN [convs[i] EXCEPT !.status = status] ELSE convs[i]]
SetMessageCount(convs, id, n) ==
  [i \in DOMAIN convs |->
     IF convs[i].id = id THEN [convs[i] EXCEPT !.messageCount = n] ELSE convs[i]]
\* messageCount + d, Math.max(0, .) where the code takes it
AddMessageCount(convs, id, d) ==
  [i \in DOMAIN convs |->
     IF convs[i].id = id
     THEN [convs[i] EXCEPT !.messageCount = IF @ + d > 0 THEN @ + d ELSE 0]
     ELSE convs[i]]
ReplaceConv(convs, id, conv) ==
  [i \in DOMAIN convs |-> IF convs[i].id = id THEN conv ELSE convs[i]]
Conv(id, status, n) == [id |-> id, status |-> status, messageCount |-> n]
InDirectory(convs, id) == \E i \in DOMAIN convs : convs[i].id = id
StatusOf(convs, id) ==
  IF InDirectory(convs, id)
  THEN convs[CHOOSE i \in DOMAIN convs : convs[i].id = id].status
  ELSE "absent"

\* idx === prev.messages.length - 1 && msg.role === 'assistant'
IsLastAssistant(msgs, i) == i = Len(msgs) /\ msgs[i].role = "assistant"

AppendMessage(session, m) ==
  IF ~HasSession(session) THEN session
  ELSE [session EXCEPT !.messages = Append(session.messages, m)]

(***************************************************************************)
(* sendMessage.                                                            *)
(***************************************************************************)
\* the optimistic user message, the generating status and flag, and the
\* AbortController of the request
OptimisticAppend(session, convs, conversationId, text, uuid) ==
  [session |->
     IF ~HasSession(session)
     THEN [conversationId |-> conversationId,
           messages |-> << Msg(uuid, "user", text, "complete") >>]
     ELSE [session EXCEPT !.messages =
             Append(session.messages, Msg(uuid, "user", text, "complete"))],
   convs |->
     SetStatus(AddMessageCount(convs, conversationId, 1), conversationId, "generating")]

\* an input that is never disabled
InputEnabledAlways == TRUE
\* handleSubmit returns when isGenerating || isSending: the input is enabled
\* while neither isGenerating nor a send is pending
InputEnabled == send.pc = "idle" /\ ~isGenerating

SendStart ==
  /\ InputEnabled
  /\ count.sends < MaxSends
  /\ count' = [count EXCEPT !.sends = count.sends + 1]
  /\ hist' = [NoHist EXCEPT !.result = "pending"]
  /\ \E streaming \in BOOLEAN :
       IF HasSession(currentSession)
       THEN LET o == OptimisticAppend(currentSession, conversations,
                                      currentSession.conversationId, UserText,
                                      Uuid(next.uuid))
            IN /\ send' = [IdleSend EXCEPT !.pc = "requesting",
                             !.conversationId = currentSession.conversationId,
                             !.content = UserText, !.streaming = streaming,
                             !.userMessageId = Uuid(next.uuid)]
               /\ currentSession' = o.session
               /\ conversations' = o.convs
               /\ isGenerating' = TRUE
               /\ reqAbort' = "live"
               /\ next' = [next EXCEPT !.uuid = next.uuid + 1]
       ELSE /\ send' = [IdleSend EXCEPT !.pc = "creating", !.content = UserText,
                          !.streaming = streaming]
            /\ UNCHANGED << currentSession, conversations, isGenerating, reqAbort,
                            next >>
  /\ UNCHANGED << activeConversation, lastSeenItemId, smAbort, polls, del, load,
                  srvConvs, srvItems, pending, sse, pager, delConv, titleJobs,
                  timer >>

\* generateTitle(conversation.id, content), not awaited: with a content the
\* call runs to its title request; without one it returns
GenerateTitle(jobs, conversationId, firstUserMessageContent) ==
  [jobs EXCEPT ![conversationId] =
     IF firstUserMessageContent # <<>> THEN "generating" ELSE "returned"]

\* client.createConversation() answered: the directory entry, the active
\* pointer, the empty session, then the optimistic part
SendCreated ==
  /\ send.pc = "creating"
  /\ next.conv <= MaxConvs
  /\ LET id == next.conv
         o == OptimisticAppend([conversationId |-> id, messages |-> <<>>],
                               << Conv(id, "active", 0) >> \o conversations,
                               id, send.content, Uuid(next.uuid))
     IN /\ srvConvs' = srvConvs \cup {id}
        /\ activeConversation' = id
        /\ currentSession' = o.session
        /\ conversations' = o.convs
        /\ send' = [send EXCEPT !.pc = "requesting", !.conversationId = id,
                                !.userMessageId = Uuid(next.uuid)]
  /\ isGenerating' = TRUE
  /\ reqAbort' = "live"
  /\ next' = [next EXCEPT !.uuid = next.uuid + 1, !.conv = next.conv + 1]
  /\ titleJobs' = GenerateTitle(titleJobs, next.conv, send.content)
  /\ UNCHANGED << lastSeenItemId, smAbort, polls, del, load, srvItems, pending,
                  count, hist, sse, pager, delConv, timer >>

\* client.createConversation() rejected: sendMessage rethrows
SendCreateFail ==
  /\ send.pc = "creating"
  /\ send' = [send EXCEPT !.pc = "idle"]
  /\ hist' = [hist EXCEPT !.result = "threw", !.failure = "create"]
  /\ UNCHANGED << conversations, activeConversation, currentSession, isGenerating,
                  lastSeenItemId, smAbort, reqAbort, polls, del, load, srvConvs,
                  srvItems, pending, next, count, sse, pager, delConv, titleJobs,
                  timer >>

\* the service accepted POST /responses with stream: true; the placeholder
\* is appended and StreamManager.startStream begins
SendResponseStream ==
  /\ send.pc = "requesting"
  /\ send.streaming
  /\ reqAbort = "live"
  /\ send.conversationId \in srvConvs
  /\ \E script \in Scripts :
       /\ send' = [send EXCEPT !.pc = "streaming", !.script = script, !.pos = 0,
                     !.localAssistantId = Uuid(next.uuid),
                     !.itemId = ItemId(next.item + 1)]
       /\ pending' = pending \cup
            { [conv |-> send.conversationId, id |-> ItemId(next.item + 1),
               content |-> ScriptText(script)] }
  /\ srvItems' = [srvItems EXCEPT ![send.conversationId] =
                    Append(@, Msg(ItemId(next.item), "user", send.content, "complete"))]
  /\ next' = [next EXCEPT !.item = next.item + 2, !.uuid = next.uuid + 1]
  /\ currentSession' =
       AppendMessage(currentSession, Msg(Uuid(next.uuid), "assistant", <<>>, "streaming"))
  /\ smAbort' = "live"
  /\ UNCHANGED << conversations, activeConversation, isGenerating, lastSeenItemId,
                  reqAbort, polls, del, load, srvConvs, count, hist, sse,
                  pager, delConv, titleJobs, timer >>

\* the output of a response: its items in order, each with the texts of its
\* content parts.  The text the service generated is in the message item;
\* with the web_search tool (settings.tools.webSearch) a web_search_call
\* item, which has no content, comes before it
OutputItem(type, content) == [type |-> type, content |-> content]
Outputs(text) ==
  { << OutputItem("message", << text >>) >>,
    << OutputItem("web_search_call", <<>>), OutputItem("message", << text >>) >> }

\* 'No response generated'
NoResponseText == << 0 >>

\* responseData.output?.[0]?.content?.[0]?.text || 'No response generated'
ResponseText(output) ==
  IF output # <<>> /\ output[1].content # <<>> /\ output[1].content[1] # <<>>
  THEN output[1].content[1]
  ELSE NoResponseText

\* the service answered POST /responses with stream: false
SendResponsePlain ==
  /\ send.pc = "requesting"
  /\ ~send.streaming
  /\ reqAbort = "live"
  /\ send.conversationId \in srvConvs
  /\ \E script \in Scripts :
       \E output \in Outputs(ScriptText(script)) :
         /\ srvItems' = [srvItems EXCEPT ![send.conversationId] =
              @ \o << Msg(ItemId(next.item), "user", send.content, "complete"),
                      Msg(ItemId(next.item + 1), "assistant", ScriptText(script),
                          "complete") >>]
         /\ currentSession' =
              AppendMessage(currentSession,
                            Msg(RespId(next.resp), "assistant", ResponseText(output),
                                "complete"))
  /\ next' = [next EXCEPT !.item = next.item + 2, !.resp = next.resp + 1]
  /\ conversations' =
       SetStatus(AddMessageCount(conversations, send.conversationId, 1), send.conversationId, "active")
  /\ isGenerating' = FALSE
  /\ send' = [send EXCEPT !.pc = "idle"]
  /\ hist' = [hist EXCEPT !.result = "ok"]
  /\ UNCHANGED << activeConversation, lastSeenItemId, smAbort, reqAbort, polls, del,
                  load, srvConvs, pending, count, sse, pager, delConv, titleJobs,
                  timer >>

\* error instanceof Error && error.name !== 'AbortError': rethrown
SendRethrows(name) == name # "AbortError"

\* a catch block that swallows every error
SendCatchSwallow(convs, conversationId, name) == convs
\* the catch block of sendMessage: an error whose name is not AbortError
\* sets the status error (and is rethrown)
SendCatch(convs, conversationId, name) ==
  IF SendRethrows(name) THEN SetStatus(convs, conversationId, "error") ELSE convs

\* createResponse rejected with an error that is no AbortError: the status
\* becomes error and sendMessage rethrows; finally clears the flag only
\* when streaming is disabled
SendRequestFail ==
  /\ send.pc = "requesting"
  /\ reqAbort = "live"
  /\ conversations' = SendCatch(conversations, send.conversationId, "Error")
  /\ isGenerating' = IF send.streaming THEN isGenerating ELSE FALSE
  /\ send' = [send EXCEPT !.pc = "idle"]
  /\ hist' = [hist EXCEPT !.failure = "request",
                          !.result = IF SendRethrows("Error") THEN "threw" ELSE "ok"]
  /\ UNCHANGED << activeConversation, currentSession, lastSeenItemId, smAbort,
                  reqAbort, polls, del, load, srvConvs, srvItems, pending, next,
                  count, sse, pager, delConv, titleJobs, timer >>

\* createResponse rejected with AbortError after cancelGeneration: swallowed
SendRequestAborted ==
  /\ send.pc = "requesting"
  /\ reqAbort = "aborted"
  /\ conversations' = SendCatch(conversations, send.conversationId, "AbortError")
  /\ isGenerating' = IF send.streaming THEN isGenerating ELSE FALSE
  /\ send' = [send EXCEPT !.pc = "idle"]
  /\ hist' = [hist EXCEPT !.result = IF SendRethrows("AbortError") THEN "threw"
                                     ELSE "ok"]
  /\ UNCHANGED << activeConversation, currentSession, lastSeenItemId,
                  smAbort, reqAbort, polls, del, load, srvConvs, srvItems, pending,
                  next, count, sse, pager, delConv, titleJobs, timer >>

(***************************************************************************)
(* StreamManager.startStream and the callbacks sendMessage passes to it.   *)
(***************************************************************************)
ExtractContentFromChunk(chunk) ==
  IF chunk.type = "response.output_text.delta" /\ chunk.delta # <<>>
  THEN chunk.delta ELSE <<>>

\* a loop that ends on response.completed only
IsTerminalCompletedOnly(chunk) == chunk.type = "response.completed"

\* chunk.type === 'response.completed' || 'response.output_item.done'
IsTerminal(chunk) ==
  chunk.type = "response.completed" \/ chunk.type = "response.output_item.done"

\* onChunk: the first item id seen wins
OnChunk(serverItemId, chunk, itemId) ==
  IF chunk.hasId /\ serverItemId = NoId THEN itemId ELSE serverItemId

\* onContent
OnContent(session, content) ==
  IF ~HasSession(session) THEN session
  ELSE [session EXCEPT !.messages =
          [i \in DOMAIN session.messages |->
             IF IsLastAssistant(session.messages, i)
             THEN [session.messages[i] EXCEPT !.content = @ \o content]
             ELSE session.messages[i]]]

\* onComplete, the session part
OnCompleteSession(session, serverItemId) ==
  IF ~HasSession(session) THEN session
  ELSE [session EXCEPT !.messages =
          [i \in DOMAIN session.messages |->
             IF IsLastAssistant(session.messages, i)
             THEN [session.messages[i] EXCEPT
                     !.id = IF serverItemId # NoId THEN serverItemId ELSE @,
                     !.status = "complete"]
             ELSE session.messages[i]]]

\* the catch block of startStream: this.abortController is read again, and
\* cancel() has set it to null, so reading .signal throws a TypeError
StreamCatchAlways(abortController) == "onError"
\* a catch block that never reports
StreamCatchNever(abortController) == "silent"
StreamCatch(abortController) ==
  IF abortController = "null" THEN "TypeError"
  ELSE IF abortController = "aborted" THEN "silent"
  ELSE "onError"

\* a finally block that leaves the controller in place
StreamFinallyKeeps(abortController) == abortController
\* finally { this.abortController = null; }
StreamFinally(abortController) == "null"

\* a loop that goes on reading after onComplete
BreakAfterCompleteNever == FALSE
\* onComplete?.(); break;
BreakAfterComplete == TRUE

\* one frame is read and handled by the loop body
StreamFrame ==
  /\ send.pc = "streaming"
  /\ smAbort = "live"
  /\ send.pos < Len(send.script)
  /\ LET chunk == send.script[send.pos + 1]
         sid == OnChunk(send.serverItemId, chunk, send.itemId)
         content == ExtractContentFromChunk(chunk)
         s1 == IF content # <<>> THEN OnContent(currentSession, content)
               ELSE currentSession
     IN IF IsTerminal(chunk)
        THEN /\ currentSession' = OnCompleteSession(s1, sid)
             /\ lastSeenItemId' = IF sid # NoId THEN sid ELSE lastSeenItemId
             /\ conversations' =
                  SetStatus(AddMessageCount(conversations, send.conversationId, 1), send.conversationId, "active")
             /\ isGenerating' = FALSE
             /\ smAbort' = IF BreakAfterComplete THEN StreamFinally(smAbort) ELSE smAbort
             /\ send' = [send EXCEPT !.pc = IF BreakAfterComplete THEN "idle" ELSE @,
                                     !.pos = send.pos + 1,
                                     !.serverItemId = sid]
             /\ hist' = [hist EXCEPT !.result = "ok"]
        ELSE /\ currentSession' = s1
             /\ send' = [send EXCEPT !.pos = send.pos + 1, !.serverItemId = sid]
             /\ UNCHANGED << lastSeenItemId, conversations, isGenerating, smAbort,
                             hist >>
  /\ UNCHANGED << activeConversation, reqAbort, polls, del, load, srvConvs, srvItems,
                  pending, next, count, sse, pager, delConv, titleJobs,
                  timer >>

\* the transport closes before a terminal frame: the loop ends, startStream
\* resolves, no callback is invoked
StreamEof ==
  /\ send.pc = "streaming"
  /\ smAbort = "live"
  /\ smAbort' = StreamFinally(smAbort)
  /\ send' = [send EXCEPT !.pc = "idle"]
  /\ hist' = [hist EXCEPT !.result = "ok"]
  /\ UNCHANGED << conversations, activeConversation, currentSession, isGenerating,
                  lastSeenItemId, reqAbort, polls, del, load, srvConvs, srvItems,
                  pending, next, count, sse, pager, delConv, titleJobs,
                  timer >>

\* reader.read() rejects: the catch block of startStream, then the code
\* after startStream in sendMessage
ReadRejected(outcome) ==
  /\ send.pc = "streaming"
  /\ smAbort' = StreamFinally(smAbort)
  /\ send' = [send EXCEPT !.pc = "idle"]
  /\ CASE outcome = "onError" ->
            \* onError: status error, flag cleared; startStream resolves
            /\ conversations' =
                 SetStatus(conversations, send.conversationId, "error")
            /\ isGenerating' = FALSE
            /\ hist' = [hist EXCEPT !.result = "ok", !.readFailed = TRUE,
                                    !.onError = TRUE,
                                    !.errAfterCancel = hist.cancelled]
       [] outcome = "TypeError" ->
            \* startStream rejects; sendMessage: not an AbortError, status
            \* error, rethrow
            /\ conversations' =
                 SendCatch(conversations, send.conversationId, "TypeError")
            /\ hist' = [hist EXCEPT !.result = "threw", !.readFailed = TRUE]
            /\ UNCHANGED isGenerating
       [] OTHER ->
            /\ hist' = [hist EXCEPT !.result = "ok", !.readFailed = TRUE]
            /\ UNCHANGED << conversations, isGenerating >>
  /\ UNCHANGED << activeConversation, currentSession, lastSeenItemId, reqAbort, polls,
                  del, load, srvConvs, srvItems, pending, next, count, sse,
                  pager, delConv, titleJobs, timer >>

\* a network failure while the stream is read
StreamError ==
  /\ smAbort = "live"
  /\ ReadRejected(StreamCatch(smAbort))

\* the read rejected by the abort of cancelGeneration
StreamAfterCancel ==
  /\ smAbort = "null"
  /\ reqAbort = "aborted"
  /\ ReadRejected(StreamCatch(smAbort))

(***************************************************************************)
(* cancelGeneration; the button is shown while isGenerating.               *)
(***************************************************************************)
\* a cancel that leaves the loop of startStream running
StreamManagerCancelKeeps(abortController) == abortController
\* cancel(): abort, then this.abortController = null
StreamManagerCancel(abortController) == "null"

CancelGeneration ==
  /\ isGenerating
  /\ reqAbort' = IF reqAbort = "none" THEN reqAbort ELSE "aborted"
  /\ smAbort' = StreamManagerCancel(smAbort)
  /\ isGenerating' = FALSE
  /\ conversations' =
       [i \in DOMAIN conversations |->
          IF conversations[i].id = activeConversation
             /\ conversations[i].status = "generating"
          THEN [conversations[i] EXCEPT !.status = "active"]
          ELSE conversations[i]]
  /\ hist' = [hist EXCEPT !.cancelled = (send.pc = "streaming" /\ smAbort = "live")
                                         \/ hist.cancelled]
  /\ UNCHANGED << activeConversation, currentSession, lastSeenItemId, send, polls,
                  del, load, srvConvs, srvItems, pending, next, count, sse,
                  pager, delConv, titleJobs, timer >>

\* order=asc: the service lists the items of a conversation in the order
\* of their creation, which is the order of their numbers
InsertItem(items, m) ==
  LET older == SelectSeq(items, LAMBDA x : x.id.n < m.id.n)
      newer == SelectSeq(items, LAMBDA x : x.id.n > m.id.n)
  IN older \o << m >> \o newer

\* the service lists the generated assistant item
ServerPersist ==
  \E g \in pending :
    /\ pending' = pending \ {g}
    /\ srvItems' = [srvItems EXCEPT ![g.conv] =
                      IF g.conv \in srvConvs
                      THEN InsertItem(@, Msg(g.id, "assistant", g.content, "complete"))
                      ELSE @]
    /\ UNCHANGED << conversations, activeConversation, currentSession, isGenerating,
                    lastSeenItemId, smAbort, reqAbort, send, polls, del, load,
                    srvConvs, next, count, hist, sse, pager, delConv, titleJobs,
                    timer >>

(***************************************************************************)
(* loadConversationItems and pollForNewItems.                              *)
(***************************************************************************)
Last(s) == s[Len(s)]
IndexOfId(items, id) ==
  IF \E i \in DOMAIN items : items[i].id = id
  THEN CHOOSE i \in DOMAIN items : items[i].id = id
  ELSE 0

\* GET /conversations/{id}/items?order=asc&after=<cursor>, all pages
\* (client.getConversationItems); an unknown conversation or cursor is an
\* error answer
ListItems(convs, items, id, after) ==
  IF id \notin convs THEN [ok |-> FALSE, items |-> <<>>, lastId |-> NoId]
  ELSE IF after = NoId
       THEN [ok |-> TRUE, items |-> items[id],
             lastId |-> IF items[id] = <<>> THEN NoId ELSE Last(items[id]).id]
  ELSE IF IndexOfId(items[id], after) = 0
       THEN [ok |-> FALSE, items |-> <<>>, lastId |-> NoId]
  ELSE LET page == SubSeq(items[id], IndexOfId(items[id], after) + 1, Len(items[id]))
       IN [ok |-> TRUE, items |-> page,
           lastId |-> IF page = <<>> THEN NoId ELSE Last(page).id]

\* a loader that turns a failure into a message
LoadConversationItemsLeaky(answer) ==
  IF ~answer.ok
  THEN [messages |-> << Msg(NoId, "assistant", <<0>>, "error") >>, lastId |-> NoId]
  ELSE [messages |->
          SelectSeq([i \in DOMAIN answer.items |->
                       Msg(answer.items[i].id, answer.items[i].role,
                           answer.items[i].content, "complete")],
                    LAMBDA m : m.content # <<>>),
        lastId |-> answer.lastId]

\* loadConversationItems: message items with a role and a content become
\* complete messages; a failure yields no messages and no lastId
LoadConversationItems(answer) ==
  IF ~answer.ok THEN [messages |-> <<>>, lastId |-> NoId]
  ELSE [messages |->
          SelectSeq([i \in DOMAIN answer.items |->
                       Msg(answer.items[i].id, answer.items[i].role,
                           answer.items[i].content, "complete")],
                    LAMBDA m : m.content # <<>>),
        lastId |-> answer.lastId]

\* `${m.role}:${m.content.substring(0, 100)}`
Signature(m) == << m.role, Substring(m.content, SigLen) >>
ExistingIds(msgs) == { msgs[i].id : i \in DOMAIN msgs }
ExistingSignatures(msgs) == { Signature(msgs[i]) : i \in DOMAIN msgs }

\* a filter that compares the role alone
UniqueNewMessagesByRole(prevMsgs, newMessages) ==
  SelectSeq(newMessages,
            LAMBDA m : /\ m.id \notin ExistingIds(prevMsgs)
                       /\ m.role \notin { prevMsgs[i].role : i \in DOMAIN prevMsgs })

\* newMessages.filter(...): neither the id nor the signature is held
UniqueNewMessages(prevMsgs, newMessages) ==
  SelectSeq(newMessages,
            LAMBDA m : /\ m.id \notin ExistingIds(prevMsgs)
                       /\ Signature(m) \notin ExistingSignatures(prevMsgs))

\* uniqueNewMessages.find(newMsg => same role and same content): its index
FindServerVersion(msg, unique) ==
  IF \E j \in DOMAIN unique :
       unique[j].role = msg.role /\ unique[j].content = msg.content
  THEN CHOOSE j \in DOMAIN unique :
         /\ unique[j].role = msg.role /\ unique[j].content = msg.content
         /\ \A k \in 1..(j - 1) :
              ~(unique[k].role = msg.role /\ unique[k].content = msg.content)
  ELSE 0

RemoveAt(s, j) == SubSeq(s, 1, j - 1) \o SubSeq(s, j + 1, Len(s))

\* prev.messages.map(...): a local message takes the id of its server
\* version, which is spliced out of uniqueNewMessages
RECURSIVE ReplaceLocal(_, _, _, _)
ReplaceLocal(msgs, i, done, unique) ==
  IF i > Len(msgs) THEN [messages |-> done, unique |-> unique]
  ELSE LET msg == msgs[i]
           j == IF IsLocalUuid(msg.id) THEN FindServerVersion(msg, unique) ELSE 0
       IN IF j # 0
          THEN ReplaceLocal(msgs, i + 1,
                            Append(done, [msg EXCEPT !.id = unique[j].id]),
                            RemoveAt(unique, j))
          ELSE ReplaceLocal(msgs, i + 1, Append(done, msg), unique)

\* a merge that puts the new messages first
PollMergePrepend(prev, newMessages) ==
  IF ~HasSession(prev) THEN prev
  ELSE LET unique == UniqueNewMessages(prev.messages, newMessages)
       IN IF unique = <<>> THEN prev
          ELSE LET r == ReplaceLocal(prev.messages, 1, <<>>, unique)
               IN [prev EXCEPT !.messages = r.unique \o r.messages]

\* the updater passed to setCurrentSession by pollForNewItems
PollMerge(prev, newMessages) ==
  IF ~HasSession(prev) THEN prev
  ELSE LET unique == UniqueNewMessages(prev.messages, newMessages)
       IN IF unique = <<>> THEN prev
          ELSE LET r == ReplaceLocal(prev.messages, 1, <<>>, unique)
               IN [prev EXCEPT !.messages = r.messages \o r.unique]

HasAssistant(msgs) == \E i \in DOMAIN msgs : msgs[i].role = "assistant"

\* a call of pollForNewItems up to its await: the request is made with the
\* values d the callback closed over, and the service answers from its
\* current lists
PollRequest(d, fails) ==
  LET answer == IF fails THEN [ok |-> FALSE, items |-> <<>>, lastId |-> NoId]
                ELSE ListItems(srvConvs, srvItems, d.conv, d.after)
      loaded == LoadConversationItems(answer)
  IN [conv |-> d.conv, after |-> d.after, gen |-> d.gen,
      len |-> Len(d.session.messages), ok |-> answer.ok,
      newMessages |-> loaded.messages, lastId |-> loaded.lastId]

\* a poll starts (the interval, or the effect that re-runs when
\* pollForNewItems changes) while fewer than limit polls are in flight; the
\* service answers from its current lists
PollIssue(limit) ==
  /\ activeConversation # NoConv
  /\ Cardinality(polls) < limit
  /\ \E fails \in BOOLEAN :
       polls' = polls \cup
         { PollRequest(EffectDeps(activeConversation, lastSeenItemId, isGenerating,
                                  currentSession), fails) }
  /\ UNCHANGED << conversations, activeConversation, currentSession, isGenerating,
                  lastSeenItemId, smAbort, reqAbort, send, del, load, srvConvs,
                  srvItems, pending, next, count, hist, sse, pager, delConv,
                  titleJobs, timer >>

\* an answer of the service that lists its last item twice
ListedTwice(newMessages) ==
  IF newMessages = <<>> THEN newMessages ELSE Append(newMessages, Last(newMessages))

\* a poll starts and the service answers with a list that repeats an item
PollIssueRepeated ==
  /\ activeConversation # NoConv
  /\ Cardinality(polls) < MaxPolls
  /\ LET r == PollRequest(EffectDeps(activeConversation, lastSeenItemId,
                                     isGenerating, currentSession), FALSE)
     IN /\ r.newMessages # <<>>
        /\ polls' = polls \cup { [r EXCEPT !.newMessages = ListedTwice(@)] }
  /\ UNCHANGED << conversations, activeConversation, currentSession, isGenerating,
                  lastSeenItemId, smAbort, reqAbort, send, del, load, srvConvs,
                  srvItems, pending, next, count, hist, sse, pager, delConv,
                  titleJobs, timer >>

PollStart == PollIssue(MaxPolls)

\* a poll starts while the previous one is still in flight
PollOverlap == PollIssue(MaxOverlap)

\* the continuation of pollForNewItems after the await, on the state it
\* finds; p holds the answer and the values the callback closed over
PollApply(session, convs, watermark, generating, p) ==
  IF Len(p.newMessages) > 0
  THEN LET counted == SetMessageCount(convs, p.conv, p.len + Len(p.newMessages))
           evidence == p.gen /\ HasAssistant(p.newMessages)
       IN [session |-> PollMerge(session, p.newMessages),
           wm |-> IF p.lastId # NoId THEN p.lastId ELSE watermark,
           convs |-> IF evidence THEN SetStatus(counted, p.conv, "active")
                     ELSE counted,
           gen |-> IF evidence THEN FALSE ELSE generating]
  ELSE [session |-> session, wm |-> watermark, convs |-> convs, gen |-> generating]

\* the answer of a poll is applied
PollReturn ==
  \E p \in polls :
    /\ polls' = polls \ {p}
    /\ LET r == PollApply(currentSession, conversations, lastSeenItemId,
                          isGenerating, p)
       IN /\ currentSession' = r.session
          /\ lastSeenItemId' = r.wm
          /\ conversations' = r.convs
          /\ isGenerating' = r.gen
    /\ hist' = IF Len(p.newMessages) > 0
               THEN [hist EXCEPT !.polled =
                       hist.polled \/ send.itemId \in ExistingIds(p.newMessages)]
               ELSE [hist EXCEPT !.pollFailed = hist.pollFailed \/ ~p.ok]
    /\ UNCHANGED << activeConversation, smAbort, reqAbort, send, del, load, srvConvs,
                    srvItems, pending, next, count, sse, pager, delConv,
                    titleJobs, timer >>

(***************************************************************************)
(* loadConversation (switchConversation, and the conversation_id of the    *)
(* URL on mount) and createConversation.                                   *)
(***************************************************************************)
LoadStart ==
  /\ load.pc = "idle"
  /\ count.loads < MaxLoads
  /\ \E id \in ConvIds :
       /\ InDirectory(conversations, id)
          \/ (conversations = <<>> /\ count.sends = 0 /\ count.loads = 0)
       /\ load' = [pc |-> "inflight", id |-> id]
  /\ count' = [count EXCEPT !.loads = count.loads + 1]
  /\ UNCHANGED << conversations, activeConversation, currentSession, isGenerating,
                  lastSeenItemId, smAbort, reqAbort, send, polls, del, srvConvs,
                  srvItems, pending, next, hist, sse, pager, delConv, titleJobs,
                  timer >>

LoadDone ==
  /\ load.pc = "inflight"
  /\ load.id \in srvConvs
  /\ LET loaded == LoadConversationItems(ListItems(srvConvs, srvItems, load.id, NoId))
         conv == Conv(load.id, "active", Len(loaded.messages))
     IN /\ lastSeenItemId' = loaded.lastId
        /\ conversations' =
             IF InDirectory(conversations, load.id)
             THEN ReplaceConv(conversations, load.id, conv)
             ELSE << conv >> \o conversations
        /\ activeConversation' = load.id
        /\ currentSession' = [conversationId |-> load.id, messages |-> loaded.messages]
  /\ load' = IdleLoad
  /\ UNCHANGED << isGenerating, smAbort, reqAbort, send, polls, del, srvConvs,
                  srvItems, pending, next, count, hist, sse, pager, delConv,
                  titleJobs, timer >>

LoadFail ==
  /\ load.pc = "inflight"
  /\ load' = IdleLoad
  /\ UNCHANGED << conversations, activeConversation, currentSession, isGenerating,
                  lastSeenItemId, smAbort, reqAbort, send, polls, del, srvConvs,
                  srvItems, pending, next, count, hist, sse, pager, delConv,
                  titleJobs, timer >>

\* a "New Conversation" button that creates the conversation at once
CreateConversationEager ==
  /\ next.conv <= MaxConvs
  /\ srvConvs' = srvConvs \cup {next.conv}
  /\ next' = [next EXCEPT !.conv = next.conv + 1]
  /\ conversations' = << Conv(next.conv, "active", 0) >> \o conversations
  /\ activeConversation' = next.conv
  /\ currentSession' = [conversationId |-> next.conv, messages |-> <<>>]
  /\ lastSeenItemId' = NoId
  /\ UNCHANGED << isGenerating, smAbort, reqAbort, send, polls, del, load,
                  srvItems, pending, count, hist, sse, pager, delConv, titleJobs,
                  timer >>

\* createConversation: the "New Conversation" button only resets the view
CreateConversation ==
  /\ activeConversation # NoConv \/ HasSession(currentSession)
       \/ lastSeenItemId # NoId
  /\ activeConversation' = NoConv
  /\ currentSession' = NoSession
  /\ lastSeenItemId' = NoId
  /\ UNCHANGED << conversations, isGenerating, smAbort, reqAbort, send, polls, del,
                  load, srvConvs, srvItems, pending, next, count, hist, sse,
                  pager, delConv, titleJobs, timer >>

(***************************************************************************)
(* generateTitle: started by the send that creates a conversation, never   *)
(* awaited.                                                                *)
(***************************************************************************)
\* a catch that shows the failure in the directory
TitleCatchSurface(convs, conversationId) == SetStatus(convs, conversationId, "error")

\* catch (error) { console.error('Failed to generate title:', error) }
TitleCatch(convs, conversationId) == convs

\* the title request (createResponse, store: false) is answered
TitleGenerated ==
  /\ \E c \in ConvIds :
       /\ titleJobs[c] = "generating"
       /\ titleJobs' = [titleJobs EXCEPT ![c] = "updating"]
  /\ UNCHANGED << conversations, activeConversation, currentSession, isGenerating,
                  lastSeenItemId, smAbort, reqAbort, send, polls, del, load,
                  srvConvs, srvItems, pending, next, count, hist, sse, pager,
                  delConv, timer >>

\* client.updateConversation is answered: the title is written into the
\* entry of the directory (the title of an entry is not part of the model)
TitleUpdated ==
  /\ \E c \in ConvIds :
       /\ titleJobs[c] = "updating"
       /\ c \in srvConvs
       /\ titleJobs' = [titleJobs EXCEPT ![c] = "done"]
  /\ UNCHANGED << conversations, activeConversation, currentSession, isGenerating,
                  lastSeenItemId, smAbort, reqAbort, send, polls, del, load,
                  srvConvs, srvItems, pending, next, count, hist, sse, pager,
                  delConv, timer >>

\* the title request or the metadata update fails: the catch of
\* generateTitle
TitleFail ==
  /\ \E c \in ConvIds :
       /\ titleJobs[c] \in {"generating", "updating"}
       /\ titleJobs' = [titleJobs EXCEPT ![c] = "failed"]
       /\ conversations' = TitleCatch(conversations, c)
  /\ UNCHANGED << activeConversation, currentSession, isGenerating,
                  lastSeenItemId, smAbort, reqAbort, send, polls, del, load,
                  srvConvs, srvItems, pending, next, count, hist, sse, pager,
                  delConv, timer >>

(***************************************************************************)
(* deleteConversation; the delete button of every entry of the sidebar.    *)
(***************************************************************************)
\* prev.filter((c) => c.id !== id)
WithoutConv(convs, id) == SelectSeq(convs, LAMBDA c : c.id # id)

\* the click: the callback closes over activeConversation
DeleteConversationStart ==
  /\ delConv.pc = "idle"
  /\ delConv.n < MaxRemoves
  /\ \E id \in ConvIds :
       /\ InDirectory(conversations, id)
       /\ delConv' = [pc |-> "inflight", id |-> id, active |-> activeConversation,
                      n |-> delConv.n + 1, outcome |-> "none"]
  /\ UNCHANGED << conversations, activeConversation, currentSession, isGenerating,
                  lastSeenItemId, smAbort, reqAbort, send, polls, del, load,
                  srvConvs, srvItems, pending, next, count, hist, sse, pager,
                  titleJobs, timer >>

\* DELETE /conversations/{id} answered ok: the entry is filtered out, and
\* the pointer and the session are cleared if the activeConversation of
\* the closure is the deleted one
DeleteConversationDone ==
  /\ delConv.pc = "inflight"
  /\ delConv.id \in srvConvs
  /\ srvConvs' = srvConvs \ {delConv.id}
  /\ conversations' = WithoutConv(conversations, delConv.id)
  /\ IF delConv.active = delConv.id
     THEN activeConversation' = NoConv /\ currentSession' = NoSession
     ELSE UNCHANGED << activeConversation, currentSession >>
  /\ delConv' = [delConv EXCEPT !.pc = "idle", !.outcome = "ok"]
  /\ UNCHANGED << isGenerating, lastSeenItemId, smAbort, reqAbort, send, polls, del,
                  load, srvItems, pending, next, count, hist, sse, pager,
                  titleJobs, timer >>

\* DELETE /conversations/{id} failed: logged and rethrown
DeleteConversationFail ==
  /\ delConv.pc = "inflight"
  /\ delConv' = [delConv EXCEPT !.pc = "idle", !.outcome = "threw"]
  /\ UNCHANGED << conversations, activeConversation, currentSession, isGenerating,
                  lastSeenItemId, smAbort, reqAbort, send, polls, del, load,
                  srvConvs, srvItems, pending, next, count, hist, sse, pager,
                  titleJobs, timer >>

(***************************************************************************)
(* OpenAIClient.getConversationItems (openai-client.ts): the pages of a    *)
(* list call, one request each.                                            *)
(***************************************************************************)
\* a call asks for pages of at most MaxLimit items; the service holds at
\* most MaxItems items
MaxLimit == 2
MaxItems == 4

\* GET /conversations/{id}/items?order=asc&limit=..&after=..: one page of
\* the service, with has_more and last_id
ServePage(convs, items, id, after, limit) ==
  IF id \notin convs \/ (after # NoId /\ IndexOfId(items[id], after) = 0)
  THEN [ok |-> FALSE, data |-> <<>>, has_more |-> FALSE, last_id |-> NoId]
  ELSE LET from == IF after = NoId THEN 0 ELSE IndexOfId(items[id], after)
           rest == SubSeq(items[id], from + 1, Len(items[id]))
           data == SubSeq(rest, 1, Min(limit, Len(rest)))
       IN [ok |-> TRUE, data |-> data, has_more |-> Len(rest) > limit,
           last_id |-> IF data = <<>> THEN NoId ELSE Last(data).id]

\* an accumulation that keeps the newest page only
AccumulateLast(allItems, data) == data

\* allItems = [...allItems, ...(nextData.data || [])]
Accumulate(allItems, data) == allItems \o data

\* what one answered request does to the call: a failed request throws;
\* otherwise the page is added, and the call returns once has_more is false
PagerStep(pg, page) ==
  IF ~page.ok THEN [pg EXCEPT !.pc = "threw", !.pages = Append(pg.pages, page)]
  ELSE LET all == Accumulate(pg.allItems, page.data)
       IN [pg EXCEPT !.allItems = all,
                     !.currentLastId = page.last_id,
                     !.hasMore = page.has_more,
                     !.pages = Append(pg.pages, page),
                     !.pc = IF page.has_more THEN "paging" ELSE "returned",
                     !.result = IF page.has_more THEN [set |-> FALSE]
                                ELSE [set |-> TRUE, items |-> all, hasMore |-> FALSE,
                                      lastId |-> page.last_id]]

\* the answer of a request: the page of the service, or a failure of the
\* request (network, status not ok)
Answers(after) ==
  { ServePage(srvConvs, srvItems, pager.id, after, pager.limit),
    [ok |-> FALSE, data |-> <<>>, has_more |-> FALSE, last_id |-> NoId] }

\* the first request, with the cursor of the caller
GetItemsFirst ==
  /\ pager.pc = "called"
  /\ \E page \in Answers(pager.after) : pager' = PagerStep(pager, page)
  /\ UNCHANGED << conversations, activeConversation, currentSession, isGenerating,
                  lastSeenItemId, smAbort, reqAbort, send, polls, del, load,
                  srvConvs, srvItems, pending, next, count, hist, sse, delConv,
                  titleJobs, timer >>

\* while (hasMore): the next request, after currentLastId
GetItemsNext ==
  /\ pager.pc = "paging"
  /\ pager.hasMore
  /\ \E page \in Answers(pager.currentLastId) : pager' = PagerStep(pager, page)
  /\ UNCHANGED << conversations, activeConversation, currentSession, isGenerating,
                  lastSeenItemId, smAbort, reqAbort, send, polls, del, load,
                  srvConvs, srvItems, pending, next, count, hist, sse, delConv,
                  titleJobs, timer >>

\* the items a conversation may hold at the service
ItemList(n) ==
  [i \in 1..n |-> Msg(ItemId(i), IF i % 2 = 1 THEN "user" ELSE "assistant",
                      << i >>, "complete")]

\* a call: a conversation (1 exists, 2 does not), a cursor (none, an item
\* of the list or an item the service does not know) and a page size
InitPager ==
  /\ InitClient
  /\ sse = IdleSse
  /\ delConv = IdleDelConv
  /\ titleJobs = NoTitleJobs
  /\ srvConvs = {1}
  /\ pending = {}
  /\ next = [item |-> MaxItems + 1, uuid |-> 1, resp |-> 1, conv |-> 2]
  /\ \E n \in 0..MaxItems :
       /\ srvItems = [c \in ConvIds |-> IF c = 1 THEN ItemList(n) ELSE <<>>]
       /\ \E id \in ConvIds, a \in 0..(n + 1), limit \in 1..MaxLimit :
            pager = [IdlePager EXCEPT !.pc = "called", !.id = id,
                                      !.after = IF a = 0 THEN NoId ELSE ItemId(a),
                                      !.limit = limit]

(***************************************************************************)
(* SSEParser.feed (streaming.ts): the text of a stream arrives in chunks of *)
(* any size; a text is a sequence of characters.                           *)
(***************************************************************************)
NL == "\n"
DataPrefix == << "d", "a", "t", "a", ":", " " >>
Done == << "[", "D", "O", "N", "E", "]" >>

\* String.prototype.split('\n'): the pieces between the line feeds, the
\* last of which is what follows the last line feed
RECURSIVE SplitLines(_, _, _)
SplitLines(s, i, piece) ==
  IF i > Len(s) THEN << piece >>
  ELSE IF s[i] = NL THEN << piece >> \o SplitLines(s, i + 1, <<>>)
  ELSE SplitLines(s, i + 1, Append(piece, s[i]))

StartsWith(line, prefix) ==
  Len(line) >= Len(prefix) /\ SubSeq(line, 1, Len(prefix)) = prefix

\* line.slice(6)
Slice(line, from) == SubSeq(line, from + 1, Len(line))

\* JSON.parse: of the payloads that occur, the numerals are JSON texts and
\* parse to their number; anything else is a SyntaxError
IsJson(data) == data \in { << "1" >>, << "2" >> }
JsonParse(data) == IF data = << "1" >> THEN 1 ELSE 2

\* a parse loop without the try/catch: the first SyntaxError ends it
RECURSIVE ParseLinesAbort(_, _, _)
ParseLinesAbort(lines, i, chunks) ==
  IF i > Len(lines) THEN [chunks |-> chunks, threw |-> FALSE]
  ELSE IF ~StartsWith(lines[i], DataPrefix) THEN ParseLinesAbort(lines, i + 1, chunks)
  ELSE LET data == Slice(lines[i], Len(DataPrefix))
       IN IF data = Done THEN ParseLinesAbort(lines, i + 1, chunks)
          ELSE IF IsJson(data)
               THEN ParseLinesAbort(lines, i + 1, Append(chunks, JsonParse(data)))
          ELSE [chunks |-> chunks, threw |-> TRUE]

\* for (const line of lines): a data line that is not [DONE] is parsed and
\* pushed; the catch logs a SyntaxError and the loop goes on
RECURSIVE ParseLines(_, _, _)
ParseLines(lines, i, chunks) ==
  IF i > Len(lines) THEN [chunks |-> chunks, threw |-> FALSE]
  ELSE IF ~StartsWith(lines[i], DataPrefix) THEN ParseLines(lines, i + 1, chunks)
  ELSE LET data == Slice(lines[i], Len(DataPrefix))
       IN IF data = Done THEN ParseLines(lines, i + 1, chunks)
          ELSE IF IsJson(data)
               THEN ParseLines(lines, i + 1, Append(chunks, JsonParse(data)))
          ELSE ParseLines(lines, i + 1, chunks)

\* a feed that forgets the partial line of the previous chunk
FeedNoBuffer(buffer, chunk) ==
  LET lines == SplitLines(chunk, 1, <<>>)
      r == ParseLines(SubSeq(lines, 1, Len(lines) - 1), 1, <<>>)
  IN [buffer |-> Last(lines), chunks |-> r.chunks, threw |-> r.threw]

\* feed(chunk): buffer += chunk; lines = buffer.split('\n');
\* buffer = lines.pop() || ''; the other lines are parsed
Feed(buffer, chunk) ==
  LET lines == SplitLines(buffer \o chunk, 1, <<>>)
      r == ParseLines(SubSeq(lines, 1, Len(lines) - 1), 1, <<>>)
  IN [buffer |-> Last(lines), chunks |-> r.chunks, threw |-> r.threw]

\* a text has at most MaxLines lines and what follows the last of them
MaxLines == 3

\* the lines a service may send: frames, a frame that is not JSON, the
\* terminator, a comment, an empty line, a field that is not "data: "
SseLines ==
  { DataPrefix \o << "1" >>, DataPrefix \o << "2" >>, DataPrefix \o << "{" >>,
    DataPrefix \o Done, << ":" >>, <<>>, << "d", "a", "t", "a", ":", "1" >> }

\* what may follow the last line feed when the connection ends
SseTails == { <<>>, DataPrefix \o << "1" >>, << "d", "a" >> }

RECURSIVE Join(_, _)
Join(lines, i) ==
  IF i > Len(lines) THEN <<>>
  ELSE lines[i] \o << NL >> \o Join(lines, i + 1)

SseTexts ==
  { Join(ls, 1) \o t :
      ls \in UNION { [1..n -> SseLines] : n \in 0..MaxLines }, t \in SseTails }

InitSse ==
  /\ InitEngine
  /\ \E t \in SseTexts : sse = [IdleSse EXCEPT !.text = t]
  /\ pager = IdlePager
  /\ delConv = IdleDelConv
  /\ titleJobs = NoTitleJobs

\* reader.read() gives the next part of the text, of any length, and
\* streamResponse feeds it to the parser; a throw of feed ends the stream
SseFeed ==
  /\ sse.pos < Len(sse.text)
  /\ ~sse.threw
  /\ \E k \in 1..(Len(sse.text) - sse.pos) :
       LET r == Feed(sse.buffer, SubSeq(sse.text, sse.pos + 1, sse.pos + k))
       IN sse' = [sse EXCEPT !.pos = sse.pos + k,
                             !.buffer = r.buffer,
                             !.chunks = sse.chunks \o r.chunks,
                             !.threw = r.threw,
                             !.split = sse.split \/ r.buffer # <<>>]
  /\ UNCHANGED << conversations, activeConversation, currentSession, isGenerating,
                  lastSeenItemId, smAbort, reqAbort, send, polls, del, load,
                  srvConvs, srvItems, pending, next, count, hist, pager,
                  delConv, titleJobs, timer >>

(***************************************************************************)
(* deleteMessage; the delete button is shown on every message that is not  *)
(* streaming.                                                              *)
(***************************************************************************)
WithoutId(msgs, id) == SelectSeq(msgs, LAMBDA m : m.id # id)

\* remainingMessages.slice().reverse().find(server id)?.id
LastServerId(msgs) ==
  IF \E i \in DOMAIN msgs : IsServerId(msgs[i].id)
  THEN msgs[CHOOSE i \in DOMAIN msgs :
              /\ IsServerId(msgs[i].id)
              /\ \A k \in (i + 1)..Len(msgs) : ~IsServerId(msgs[k].id)].id
  ELSE NoId

\* the watermark after a deletion, from the values deleteMessage closed over
RecomputeWatermark(current, messageId, closedWatermark, closedMessages) ==
  IF messageId = closedWatermark /\ Len(closedMessages) > 1
  THEN LET remaining == WithoutId(closedMessages, messageId)
       IN IF Len(remaining) > 0
          THEN IF IsServerId(Last(remaining).id) THEN Last(remaining).id
               ELSE LastServerId(remaining)
          ELSE NoId
  ELSE current

\* a catch that logs and returns
DeleteCatchSwallow == "returned"

\* catch (error) { console.error(...); throw error; }
DeleteCatch == "threw"

DeleteStart ==
  /\ del.pc = "idle"
  /\ count.deletes < MaxDeletes
  /\ activeConversation # NoConv
  /\ HasSession(currentSession)
  /\ \E i \in DOMAIN currentSession.messages :
       /\ currentSession.messages[i].status # "streaming"
       /\ del' = [pc |-> "inflight", messageId |-> currentSession.messages[i].id,
                  conv |-> activeConversation, msgs |-> currentSession.messages,
                  wm |-> lastSeenItemId, outcome |-> "none"]
  /\ count' = [count EXCEPT !.deletes = count.deletes + 1]
  /\ UNCHANGED << conversations, activeConversation, currentSession, isGenerating,
                  lastSeenItemId, smAbort, reqAbort, send, polls, load, srvConvs,
                  srvItems, pending, next, hist, sse, pager, delConv, titleJobs,
                  timer >>

\* DELETE /conversations/{id}/items/{item_id} succeeded
DeleteDone ==
  /\ del.pc = "inflight"
  /\ del.conv \in srvConvs
  /\ IndexOfId(srvItems[del.conv], del.messageId) # 0
  /\ srvItems' = [srvItems EXCEPT ![del.conv] = WithoutId(@, del.messageId)]
  /\ currentSession' =
       IF ~HasSession(currentSession) THEN currentSession
       ELSE [currentSession EXCEPT !.messages = WithoutId(@, del.messageId)]
  /\ conversations' =
       AddMessageCount(conversations, del.conv, 0 - 1)
  /\ lastSeenItemId' =
       RecomputeWatermark(lastSeenItemId, del.messageId, del.wm, del.msgs)
  /\ del' = [IdleDel EXCEPT !.outcome = "ok"]
  /\ UNCHANGED << activeConversation, isGenerating, smAbort, reqAbort, send, polls,
                  load, srvConvs, pending, next, count, hist, sse, pager,
                  delConv, titleJobs, timer >>

\* the request failed (the service knows no such item, or the network):
\* deleteMessage rethrows
DeleteFail ==
  /\ del.pc = "inflight"
  /\ del' = [IdleDel EXCEPT !.outcome = DeleteCatch]
  /\ UNCHANGED << conversations, activeConversation, currentSession, isGenerating,
                  lastSeenItemId, smAbort, reqAbort, send, polls, load, srvConvs,
                  srvItems, pending, next, count, hist, sse, pager, delConv,
                  titleJobs, timer >>

Next ==
  \/ SendStart
  \/ SendCreated
  \/ SendCreateFail
  \/ SendResponseStream
  \/ SendResponsePlain
  \/ SendRequestFail
  \/ SendRequestAborted
  \/ StreamFrame
  \/ StreamEof
  \/ StreamError
  \/ StreamAfterCancel
  \/ CancelGeneration
  \/ ServerPersist
  \/ PollStart
  \/ PollReturn
  \/ LoadStart
  \/ LoadDone
  \/ LoadFail
  \/ CreateConversation
  \/ DeleteStart
  \/ DeleteDone
  \/ DeleteFail
  \/ SseFeed
  \/ GetItemsFirst
  \/ GetItemsNext
  \/ DeleteConversationStart
  \/ DeleteConversationDone
  \/ DeleteConversationFail
  \/ TitleGenerated
  \/ TitleUpdated
  \/ TitleFail

Spec == Init /\ [][Next]_vars

(***************************************************************************)
(* The polling effect: useEffect(..., [activeConversation, client,         *)
(* pollForNewItems]).  After a render whose dependencies differ from those *)
(* of the last run, the cleanup of the last run is called and then the     *)
(* effect.                                                                 *)
(***************************************************************************)
\* the ids setInterval can give
MaxTimers == 2
TimerIds == 1..MaxTimers

\* the dependencies as of the current render
Deps == EffectDeps(activeConversation, lastSeenItemId, isGenerating, currentSession)
\* the effect has run for the current render
EffectsFlushed == timer.pc = "idle" /\ timer.deps = Deps

\* a clearInterval that clears nothing
ClearIntervalNoop(scheduled, ref) == scheduled
\* if (pollingIntervalRef.current) clearInterval(pollingIntervalRef.current)
ClearInterval(scheduled, ref) == IF ref # 0 THEN scheduled \ {ref} ELSE scheduled

\* the cleanup the last run of the effect returned
PollingCleanup ==
  /\ timer.pc = "idle"
  /\ timer.deps # Deps
  /\ timer' = [timer EXCEPT !.pc = "cleaned",
                            !.scheduled = ClearInterval(timer.scheduled, timer.ref)]
  /\ UNCHANGED << conversations, activeConversation, currentSession, isGenerating,
                  lastSeenItemId, smAbort, reqAbort, send, polls, del, load,
                  srvConvs, srvItems, pending, next, count, hist, sse, pager,
                  delConv, titleJobs >>

\* the effect: clear the interval of the ref; with an active conversation
\* poll at once (at most MaxPolls polls are kept in flight) and set the
\* interval
PollingSetup ==
  /\ timer.pc = "cleaned"
  /\ LET cleared == ClearInterval(timer.scheduled, timer.ref)
         id == CHOOSE n \in TimerIds : n \notin cleared
     IN IF activeConversation # NoConv
        THEN /\ \E fails \in BOOLEAN :
                  polls' = IF Cardinality(polls) < MaxPolls
                           THEN polls \cup { PollRequest(Deps, fails) }
                           ELSE polls
             /\ timer' = [pc |-> "idle", scheduled |-> cleared \cup {id},
                          ref |-> id, deps |-> Deps]
        ELSE /\ timer' = [timer EXCEPT !.pc = "idle", !.scheduled = cleared,
                                       !.deps = Deps]
             /\ UNCHANGED polls
  /\ UNCHANGED << conversations, activeConversation, currentSession, isGenerating,
                  lastSeenItemId, smAbort, reqAbort, send, del, load, srvConvs,
                  srvItems, pending, next, count, hist, sse, pager, delConv,
                  titleJobs >>

\* an interval fires: the pollForNewItems the effect was given is called
TimerTick ==
  /\ timer.scheduled # {}
  /\ Cardinality(polls) < MaxPolls
  /\ \E fails \in BOOLEAN :
       polls' = polls \cup { PollRequest(timer.deps, fails) }
  /\ UNCHANGED << conversations, activeConversation, currentSession, isGenerating,
                  lastSeenItemId, smAbort, reqAbort, send, del, load, srvConvs,
                  srvItems, pending, next, count, hist, sse, pager, delConv,
                  titleJobs, timer >>

(***************************************************************************)
(* The parts of the engine, each with the operations that interleave in    *)
(* it.                                                                     *)
(***************************************************************************)
\* one conversation: sends, streams, cancellation and polls
NextSync ==
  \/ SendStart
  \/ SendCreated
  \/ SendCreateFail
  \/ SendResponseStream
  \/ SendResponsePlain
  \/ SendRequestFail
  \/ SendRequestAborted
  \/ StreamFrame
  \/ StreamEof
  \/ StreamError
  \/ StreamAfterCancel
  \/ CancelGeneration
  \/ ServerPersist
  \/ PollStart
  \/ PollReturn

SpecSync == Init /\ [][NextSync]_vars

\* two conversations: loads, switches, plain sends and polls
NextSwitch ==
  \/ SendStart
  \/ SendCreated
  \/ SendResponsePlain
  \/ LoadStart
  \/ LoadDone
  \/ LoadFail
  \/ CreateConversation
  \/ PollStart
  \/ PollReturn

SpecSwitch == Init /\ [][NextSwitch]_vars

\* the decoder alone: a text is drawn and fed to the parser in chunks
NextSse == SseFeed

SpecSse == InitSse /\ [][NextSse]_vars

\* two conversations: loads, switches, plain sends and the deletion of
\* conversations
NextRemove ==
  \/ SendStart
  \/ SendCreated
  \/ SendResponsePlain
  \/ LoadStart
  \/ LoadDone
  \/ LoadFail
  \/ CreateConversation
  \/ DeleteConversationStart
  \/ DeleteConversationDone
  \/ DeleteConversationFail

SpecRemove == Init /\ [][NextRemove]_vars

\* the polling effect beside the operations that change the active
\* conversation and the polls; a state update is rendered, and a handler
\* is called, only after the effects of the last render were run
NextTimer ==
  \/ PollingCleanup
  \/ PollingSetup
  \/ TimerTick
  \/ EffectsFlushed /\ PollReturn
  \/ EffectsFlushed /\ SendStart
  \/ EffectsFlushed /\ SendCreated
  \/ EffectsFlushed /\ LoadStart
  \/ EffectsFlushed /\ LoadDone
  \/ EffectsFlushed /\ LoadFail
  \/ EffectsFlushed /\ CreateConversation
  \/ EffectsFlushed /\ DeleteConversationStart
  \/ EffectsFlushed /\ DeleteConversationDone

SpecTimer == Init /\ [][NextTimer]_vars

\* the first send of a conversation with its title generation, further
\* sends and polls
NextTitle ==
  \/ SendStart
  \/ SendCreated
  \/ SendCreateFail
  \/ SendResponsePlain
  \/ SendRequestFail
  \/ PollStart
  \/ PollReturn
  \/ TitleGenerated
  \/ TitleUpdated
  \/ TitleFail

SpecTitle == Init /\ [][NextTitle]_vars

\* the list call alone: a call is drawn and its requests are answered
NextPager ==
  \/ GetItemsFirst
  \/ GetItemsNext

SpecPager == InitPager /\ [][NextPager]_vars

\* message deletion, with the plain sends and polls that run beside it
NextDelete ==
  \/ SendStart
  \/ SendResponsePlain
  \/ LoadStart
  \/ LoadDone
  \/ PollStart
  \/ PollReturn
  \/ DeleteStart
  \/ DeleteDone
  \/ DeleteFail

SpecDelete == Init /\ [][NextDelete]_vars

\* overlapping polls beside plain sends
NextPoll ==
  \/ SendStart
  \/ SendCreated
  \/ SendResponsePlain
  \/ PollOverlap
  \/ PollReturn

SpecPoll == Init /\ [][NextPoll]_vars

\* plain sends and polls, with a service that may list an item twice
NextRepeat ==
  \/ SendStart
  \/ SendCreated
  \/ SendResponsePlain
  \/ PollStart
  \/ PollIssueRepeated
  \/ PollReturn

SpecRepeat == Init /\ [][NextRepeat]_vars

(***************************************************************************)
(* Properties.                                                             *)
(***************************************************************************)
Messages == currentSession.messages
Positions(msgs, ids) == { i \in DOMAIN msgs : msgs[i].id \in ids }
\* a poll answer p is applied in this step
Returned(p) == p \in polls /\ polls' = polls \ {p}
\* the stream of the current send delivered its terminal frame
StreamCompleted ==
  /\ send.pc = "idle" /\ send.streaming
  /\ send.pos > 0 /\ IsTerminal(send.script[send.pos])

\* C1: once the stream of a turn has completed (with the item id seen in
\* its frames) and a poll answer holding the item of that turn has been
\* applied, the session holds exactly one message for the turn (the
\* placeholder or the item), and its id is the server-assigned item id.
C1_NoDuplicateTurn ==
  (StreamCompleted /\ send.serverItemId # NoId /\ hist.polled
     /\ currentSession.conversationId = send.conversationId)
  => /\ Cardinality(Positions(Messages, {send.localAssistantId, send.itemId})) = 1
     /\ Positions(Messages, {send.localAssistantId}) = {}

\* C2: when an applied poll answer holds an item whose id is not in the
\* session, and the session holds a message with a local id, the same role
\* and the same content, that message carries the item's id afterwards and
\* no other message does.
C2_PollUnifiesPlaceholder ==
  [][\A p \in polls :
       Returned(p) /\ HasSession(currentSession) =>
         \A j \in DOMAIN p.newMessages, i \in DOMAIN Messages :
           ( /\ p.newMessages[j].id \notin ExistingIds(Messages)
             /\ IsLocalUuid(Messages[i].id)
             /\ Messages[i].role = p.newMessages[j].role
             /\ Messages[i].content = p.newMessages[j].content
             /\ \A k \in 1..(i - 1) :
                  ~( /\ IsLocalUuid(Messages[k].id)
                     /\ Messages[k].role = p.newMessages[j].role
                     /\ Messages[k].content = p.newMessages[j].content ) )
           => Positions(currentSession'.messages, {p.newMessages[j].id}) = {i}
    ]_vars

\* some local message has the role and the content of item m
UnifiableWith(msgs, m) ==
  \E i \in DOMAIN msgs :
    IsLocalUuid(msgs[i].id) /\ msgs[i].role = m.role /\ msgs[i].content = m.content

\* C3 as stated: an item of an applied poll answer whose id is not in the
\* session and that no local message matches (same role, same content) is
\* in the session afterwards.
C3_NewItemAppended ==
  [][\A p \in polls :
       Returned(p) /\ HasSession(currentSession) =>
         \A j \in DOMAIN p.newMessages :
           ( /\ p.newMessages[j].id \notin ExistingIds(Messages)
             /\ ~UnifiableWith(Messages, p.newMessages[j]) )
           => p.newMessages[j].id \in ExistingIds(currentSession'.messages)
    ]_vars

\* C3 amended: an item of an applied poll answer whose id is not in the
\* session and whose signature (role and first 100 characters) is the
\* signature of no message of the session is appended, unchanged, after
\* the messages the session held.
C3_UnmatchedItemAppended ==
  [][\A p \in polls :
       Returned(p) /\ HasSession(currentSession) =>
         \A j \in DOMAIN p.newMessages :
           ( /\ p.newMessages[j].id \notin ExistingIds(Messages)
             /\ Signature(p.newMessages[j]) \notin ExistingSignatures(Messages) )
           => \E i \in (Len(Messages) + 1)..Len(currentSession'.messages) :
                currentSession'.messages[i] = p.newMessages[j]
    ]_vars

\* C3 witness: the item of the running stream was appended by a poll
C3_Witness ==
  /\ send.pc = "streaming"
  /\ Positions(Messages, {send.itemId}) # {}

\* C4: a poll answer fetched for one conversation changes neither the
\* messages nor the watermark of a session of another conversation.
C4_NoCrossConversationMerge ==
  [][\A p \in polls :
       ( /\ Returned(p)
         /\ HasSession(currentSession)
         /\ currentSession.conversationId # p.conv )
       => /\ currentSession'.messages = Messages
          /\ lastSeenItemId' = lastSeenItemId
    ]_vars

\* C5: the send whose stream was cancelled settles without an error, and
\* the status of its conversation is active then.
C5_CancelIsNoFailure ==
  [][( /\ send.pc = "streaming" /\ send'.pc = "idle"
       /\ hist.cancelled )
     => /\ hist'.result = "ok"
        /\ StatusOf(conversations', send.conversationId) = "active"
    ]_vars

\* C6: once cancel has been invoked on the stream of a send, the error
\* callback of that stream is not invoked and the generating flag is false
\* (until the next send).
C6_CancellationSilence ==
  hist.cancelled => (~hist.errAfterCancel /\ ~hist.onError /\ ~isGenerating)

\* C6 witness: cancel was invoked and the rejected read has been handled
C6_Witness == hist.cancelled /\ send.pc = "idle" /\ hist.result # "pending"

\* C7: at most one message is streaming, and it is the most recent
\* assistant message.
C7_OneStreamingMessage ==
  LET streaming == { i \in DOMAIN Messages : Messages[i].status = "streaming" }
  IN /\ Cardinality(streaming) <= 1
     /\ \A i \in streaming :
          /\ Messages[i].role = "assistant"
          /\ \A k \in (i + 1)..Len(Messages) : Messages[k].role # "assistant"

\* the service numbers the items of a conversation in the order it creates
\* them: a is an older item than b
Older(a, b) == a.k = "item" /\ b.k = "item" /\ a.n < b.n

\* C8: once the watermark is set, a poll answer or a stream completion
\* never moves it to an older item.
C8_WatermarkMonotone ==
  [][( /\ \/ \E p \in polls : Returned(p)
          \/ send.pc = "streaming" /\ send'.pc = "idle"
       /\ lastSeenItemId # NoId )
     => ~Older(lastSeenItemId', lastSeenItemId)
    ]_vars

\* a deletion is applied in this step
Deleted == del.pc = "inflight" /\ del'.pc = "idle" /\ srvItems' # srvItems
\* the deleted message is the watermark, when requested and when applied
DeletedWatermark ==
  Deleted /\ del.messageId = del.wm /\ del.messageId = lastSeenItemId
ServerIds(msgs) == { i \in DOMAIN msgs : IsServerId(msgs[i].id) }

\* C9: when the deleted message is the watermark and a message with a
\* server id remains, the watermark becomes the id of the last such
\* message, never a local id.
C9_WatermarkRecomputed ==
  [][( /\ DeletedWatermark
       /\ HasSession(currentSession)
       /\ ServerIds(currentSession'.messages) # {} )
     => /\ lastSeenItemId' = LastServerId(currentSession'.messages)
        /\ ~IsLocalUuid(lastSeenItemId')
    ]_vars

\* C10: when the deleted message is the watermark and no message with a
\* server id remains, the watermark becomes unset.
C10_WatermarkUnset ==
  [][( /\ DeletedWatermark
       /\ HasSession(currentSession)
       /\ ServerIds(currentSession'.messages) = {} )
     => lastSeenItemId' = NoId
    ]_vars

\* the text of the delta frames the stream of the current send has delivered
Delivered == ScriptText(SubSeq(send.script, 1, send.pos))
\* the positions of the streaming message of the current send: the
\* placeholder, under the server id once the completion has renamed it
OwnMessage ==
  IF Positions(Messages, {send.localAssistantId}) # {}
  THEN Positions(Messages, {send.localAssistantId})
  ELSE Positions(Messages, {send.serverItemId})

\* C11: after every delta frame a stream has delivered, the content of its
\* streaming message is the concatenation of the deltas delivered so far,
\* in delivery order.
C11_OrderPreserved ==
  ( /\ send.localAssistantId # NoId
    /\ currentSession.conversationId = send.conversationId )
  => /\ OwnMessage # {}
     /\ \A i \in OwnMessage : Messages[i].content = Delivered

\* the terminal frame of the stream is handled in this step
Completes ==
  /\ send.pc = "streaming" /\ send'.pc = "idle"
  /\ send'.pos = send.pos + 1

\* C12: when a frame of the stream carried an item id, the completion
\* leaves the placeholder of the stream complete and with the first item id
\* observed, and the number of messages is unchanged.
C12_CompletionUnifies ==
  [][( /\ Completes
       /\ send'.serverItemId # NoId
       /\ currentSession.conversationId = send.conversationId )
     => /\ Len(currentSession'.messages) = Len(Messages)
        /\ \A i \in Positions(Messages, {send.localAssistantId}) :
             /\ currentSession'.messages[i].status = "complete"
             /\ currentSession'.messages[i].id = send'.serverItemId
        /\ Positions(Messages, {send.localAssistantId}) # {}
    ]_vars

\* C13: when two polls in flight hold the same result, applying the second
\* right after the first changes neither the message list nor the message
\* count of the conversation.
C13_PollIdempotent ==
  \A p \in polls, q \in polls :
    ( /\ p # q
      /\ p.newMessages = q.newMessages /\ p.newMessages # <<>>
      /\ p.conv = q.conv
      /\ currentSession.conversationId = p.conv )
    => LET a == PollApply(currentSession, conversations, lastSeenItemId,
                          isGenerating, p)
           b == PollApply(a.session, a.convs, a.wm, a.gen, q)
       IN /\ b.session.messages = a.session.messages
          /\ \A i \in DOMAIN a.convs :
               b.convs[i].messageCount = a.convs[i].messageCount

\* the send in flight settles with an error in this step
Throws == hist.result = "pending" /\ hist'.result = "threw"
\* a request of the send in flight fails in this step
Fails(request) == hist.failure = "none" /\ hist'.failure = request
\* the user message of the send in flight is in the session after the step
UserMessageKept ==
  \E i \in DOMAIN currentSession'.messages :
    /\ currentSession'.messages[i].id = send.userMessageId
    /\ currentSession'.messages[i].role = "user"
    /\ currentSession'.messages[i].content = send.content

\* C14 as stated: whenever a request of a send fails, the failure is
\* thrown, the user message of the send is in the session and the status
\* of its conversation is error.
C14_FailedSendKeepsMessage ==
  [][(Fails("request") \/ Fails("create"))
     => /\ Throws
        /\ UserMessageKept
        /\ StatusOf(conversations', send.conversationId) = "error"
    ]_vars

\* C14 amended: when the generation request of a send fails, the failure
\* is thrown, the user message stays in the session and the status of the
\* conversation is error; when the creation of the conversation fails, the
\* failure is thrown and neither the session nor the directory changes.
C14_RequestFailureKeepsMessage ==
  [][/\ Fails("request")
        => /\ Throws
           /\ UserMessageKept
           /\ StatusOf(conversations', send.conversationId) = "error"
     /\ Fails("create")
        => /\ Throws
           /\ currentSession' = currentSession
           /\ conversations' = conversations
    ]_vars

\* C14 witness: the generation request of a send has failed
C14_Witness ==
  /\ send.pc = "idle" /\ hist.failure = "request"
  /\ Positions(Messages, {send.userMessageId}) # {}

\* C15: when the read of a stream fails and no cancellation was requested,
\* the error callback is invoked, the status of the conversation becomes
\* error and the generating flag is cleared.
C15_StreamFailureReported ==
  [][(~hist.readFailed /\ hist'.readFailed /\ ~hist.cancelled)
     => /\ hist'.onError
        /\ StatusOf(conversations', send.conversationId) = "error"
        /\ ~isGenerating'
    ]_vars

\* C15 witness: the read has failed without a cancellation
C15_Witness == hist.readFailed /\ ~hist.cancelled /\ send.pc = "idle"

\* C16: whenever the answer of a poll holds an assistant message and is
\* applied while the generating flag is set, the flag is cleared and the
\* status of the active conversation becomes active.
C16_CompletionEvidence ==
  [][\A p \in polls :
       (Returned(p) /\ isGenerating /\ HasAssistant(p.newMessages))
       => /\ ~isGenerating'
          /\ StatusOf(conversations', activeConversation) = "active"
    ]_vars

\* C17: applying the answer of a failed poll leaves the messages of the
\* session, the watermark, the generating flag and the directory (so every
\* status) as they were, and the next poll can be issued.
C17_FailedPollChangesNothing ==
  [][\A p \in polls :
       (Returned(p) /\ ~p.ok)
       => /\ currentSession' = currentSession
          /\ lastSeenItemId' = lastSeenItemId
          /\ isGenerating' = isGenerating
          /\ conversations' = conversations
          /\ activeConversation' = activeConversation
          /\ activeConversation # NoConv => Cardinality(polls') < MaxPolls
    ]_vars

\* C17 witness: a poll has failed during a generation, with messages in the
\* session and a watermark
C17_Witness ==
  /\ hist.pollFailed /\ isGenerating /\ lastSeenItemId # NoId
  /\ Len(currentSession.messages) > 0
  /\ StatusOf(conversations, activeConversation) = "generating"

\* C18: the service gains a conversation only in answer to the creation
\* request of a send, and a send issues that request only when it finds no
\* session; the start, the new-conversation action, loads and switches
\* leave the conversations of the service as they are.
C18_CreatedOnlyBySend ==
  [][/\ srvConvs' # srvConvs
        => send.pc = "creating" /\ send'.pc = "requesting"
     /\ (send.pc # "creating" /\ send'.pc = "creating")
        => send.pc = "idle" /\ ~HasSession(currentSession)
     /\ send' = send => srvConvs' = srvConvs
    ]_vars

\* C18 witness: a send has created a conversation after a conversation was
\* loaded and the new-conversation action was taken
C18_Witness ==
  /\ count.loads > 0 /\ send.pc = "requesting"
  /\ send.conversationId \in srvConvs \ {1}
  /\ Len(conversations) = 2

\* the whole text has been fed
AllFed == sse.pos = Len(sse.text)

\* C19: when a text has been fed in consecutive chunks, however it was cut,
\* the frames given in total are the frames given by feeding the whole text
\* at once, in the same order.
C19_ChunkingIndependent ==
  AllFed => /\ sse.chunks = Feed(<<>>, sse.text).chunks
            /\ sse.buffer = Feed(<<>>, sse.text).buffer

\* C19 witness: a text of several frames was fed with a cut inside a line
C19_Witness ==
  /\ AllFed /\ sse.split /\ sse.buffer = <<>>
  /\ Len(sse.chunks) >= 2

\* the complete lines of the text fed so far
LinesFed ==
  LET lines == SplitLines(SubSeq(sse.text, 1, sse.pos), 1, <<>>)
  IN SubSeq(lines, 1, Len(lines) - 1)

\* a data line whose payload is JSON, and one whose payload is not
WellFormed(line) ==
  StartsWith(line, DataPrefix) /\ IsJson(Slice(line, Len(DataPrefix)))
Malformed(line) ==
  /\ StartsWith(line, DataPrefix)
  /\ Slice(line, Len(DataPrefix)) # Done
  /\ ~IsJson(Slice(line, Len(DataPrefix)))

\* C20: a data line whose payload is not JSON raises no error and gives no
\* frame, and the frames given are those of the well-formed data lines
\* before and after it, one for each, in the order of the lines.
C20_MalformedSkipped ==
  LET good == SelectSeq(LinesFed, WellFormed)
  IN /\ ~sse.threw
     /\ Len(sse.chunks) = Len(good)
     /\ \A i \in DOMAIN good :
          sse.chunks[i] = JsonParse(Slice(good[i], Len(DataPrefix)))

\* C20 witness: a malformed data line between two well-formed ones was fed
C20_Witness ==
  /\ AllFed
  /\ Len(LinesFed) = 3
  /\ WellFormed(LinesFed[1]) /\ Malformed(LinesFed[2]) /\ WellFormed(LinesFed[3])
  /\ sse.chunks = << 1, 2 >>

\* the pages a call was served, one after the other
RECURSIVE Concat(_)
Concat(pages) ==
  IF pages = <<>> THEN <<>> ELSE Head(pages).data \o Concat(Tail(pages))

\* C21: a call that returns has followed has_more to the page where it is
\* false, and returns all its pages in order with the cursor of the last
\* page, which is the whole list of the service after the cursor of the
\* caller; while pages remain, and when a request has failed, the call has
\* returned nothing.
C21_AllPagesOrFailure ==
  /\ pager.pc = "returned"
     => /\ pager.result.set
        /\ \A i \in DOMAIN pager.pages :
             pager.pages[i].ok /\ (pager.pages[i].has_more <=> i < Len(pager.pages))
        /\ pager.result.items = Concat(pager.pages)
        /\ pager.result.lastId = Last(pager.pages).last_id
        /\ pager.result.items =
             ListItems(srvConvs, srvItems, pager.id, pager.after).items
        /\ pager.result.lastId =
             ListItems(srvConvs, srvItems, pager.id, pager.after).lastId
  /\ pager.pc \in {"called", "paging", "threw"} => ~pager.result.set
  /\ (pager.pages # <<>> /\ ~Last(pager.pages).ok) => pager.pc = "threw"

\* C21 witness: a call has returned the items of three pages
C21_Witness ==
  /\ pager.pc = "returned" /\ Len(pager.pages) = 3
  /\ Len(pager.result.items) > 2 * pager.limit

\* a frame whose type is stream-completed or item-done
TerminalType(chunk) ==
  chunk.type \in {"response.completed", "response.output_item.done"}

\* C22: when the stream controller handles a frame of a terminal type, the
\* completion callback runs (flag cleared, status active) and the reading
\* stops at once; and a frame is handled only if no frame handled before it
\* was of a terminal type.
C22_StopsAtTerminalFrame ==
  [][(send.pc = "streaming" /\ send'.pos = send.pos + 1)
     => /\ \A i \in 1..send.pos : ~TerminalType(send.script[i])
        /\ TerminalType(send.script[send.pos + 1])
           => /\ send'.pc = "idle" /\ smAbort' = "null"
              /\ ~isGenerating'
              /\ StatusOf(conversations', send.conversationId) = "active"
    ]_vars

\* C22 witness: the stream has ended on a terminal frame with a frame of
\* the transport left unread
C22_Witness ==
  /\ send.pc = "idle" /\ send.streaming /\ hist.result = "ok"
  /\ send.pos > 0 /\ send.pos < Len(send.script)
  /\ TerminalType(send.script[send.pos])

\* the deleteConversation call in flight ends in this step
Removed(outcome) ==
  delConv.pc = "inflight" /\ delConv'.pc = "idle" /\ delConv'.outcome = outcome

\* C23: when a conversation has been deleted it is not in the directory;
\* if it is the active conversation the pointer and the session are cleared,
\* otherwise they are unchanged; when the deletion fails, the directory, the
\* pointer and the session are unchanged.
C23_DeletedConversationCleared ==
  [][/\ Removed("ok")
        => /\ ~InDirectory(conversations', delConv.id)
           /\ activeConversation = delConv.id
              => activeConversation' = NoConv /\ currentSession' = NoSession
           /\ activeConversation # delConv.id
              => /\ activeConversation' = activeConversation
                 /\ currentSession' = currentSession
     /\ Removed("threw")
        => /\ conversations' = conversations
           /\ activeConversation' = activeConversation
           /\ currentSession' = currentSession
    ]_vars

\* the title generation of conversation c fails in this step
TitleFails(c) == titleJobs[c] # "failed" /\ titleJobs'[c] = "failed"

\* C24: a failure of the title generation, in its request or in the update
\* of the metadata, leaves the send in flight, its outcome, the directory (so
\* every status), the generating flag and the session as they were; and the
\* send that started the title generation goes on to its generation request
\* in the step that started it.
C24_TitleFailureSwallowed ==
  [][/\ \A c \in ConvIds :
          TitleFails(c)
          => /\ send' = send /\ hist' = hist
             /\ conversations' = conversations
             /\ isGenerating' = isGenerating
             /\ currentSession' = currentSession
     /\ \A c \in ConvIds :
          (titleJobs[c] = "none" /\ titleJobs'[c] # "none")
          => send'.pc = "requesting" /\ send'.conversationId = c
     /\ send' # send => titleJobs' = titleJobs \/ send.pc = "creating"
    ]_vars

\* C24 witness: the title generation has failed while the send was in
\* flight, and the send has succeeded
C24_Witness ==
  /\ send.pc = "idle" /\ hist.result = "ok" /\ ~isGenerating
  /\ send.conversationId # NoConv
  /\ titleJobs[send.conversationId] = "failed"
  /\ StatusOf(conversations, send.conversationId) = "active"
  /\ Len(currentSession.messages) = 2

\* the deleteMessage call in flight ends in this step
DeleteEnds(outcome) ==
  del.pc = "inflight" /\ del'.pc = "idle" /\ del'.outcome = outcome

\* messageCount of a conversation of the directory
CountOf(convs, id) ==
  (CHOOSE c \in { convs[i] : i \in DOMAIN convs } : c.id = id).messageCount

\* C25: starting a deletion changes neither the session nor the directory;
\* when the gateway has deleted the item, the session is what it was without
\* the one message of that id, and the message count of the conversation is
\* one less, but not below zero; a deletion ends without a success only by
\* throwing, with the session, the directory and the watermark unchanged.
C25_DeleteAfterGateway ==
  [][/\ (del.pc = "idle" /\ del'.pc = "inflight")
        => currentSession' = currentSession /\ conversations' = conversations
     /\ DeleteEnds("ok")
        => /\ IndexOfId(srvItems[del.conv], del.messageId) # 0
           /\ IndexOfId(srvItems'[del.conv], del.messageId) = 0
           /\ LET at == Positions(Messages, {del.messageId})
              IN /\ Cardinality(at) <= 1
                 /\ \A i \in at :
                      currentSession'.messages = RemoveAt(Messages, i)
                 /\ at = {} => currentSession' = currentSession
           /\ InDirectory(conversations, del.conv)
              => CountOf(conversations', del.conv) =
                   IF CountOf(conversations, del.conv) > 0
                   THEN CountOf(conversations, del.conv) - 1 ELSE 0
     /\ (del.pc = "inflight" /\ del'.pc = "idle" /\ del'.outcome # "ok")
        => /\ del'.outcome = "threw"
           /\ currentSession' = currentSession
           /\ conversations' = conversations
           /\ lastSeenItemId' = lastSeenItemId
    ]_vars

\* C25 witness: a message was deleted from a session that keeps another
\* message, and the count went down with it
C25_Witness ==
  /\ del.pc = "idle" /\ del.outcome = "ok"
  /\ Len(Messages) = 1
  /\ InDirectory(conversations, activeConversation)
  /\ CountOf(conversations, activeConversation) = 1

\* the send in flight appends its optimistic user message in this step
SendAppendsUser ==
  send.pc \in {"idle", "creating"} /\ send'.pc = "requesting" /\ ~send'.streaming

\* the send in flight, with streaming disabled, succeeds in this step
PlainSendSucceeds ==
  /\ send.pc = "requesting" /\ ~send.streaming
  /\ send'.pc = "idle" /\ hist'.result = "ok"

\* C26: with streaming disabled, a send appends the user message when it
\* starts, and when it succeeds it appends one assistant message of status
\* complete whose content is the text the service generated (the content of
\* the assistant item the service lists for the turn); the status of the
\* conversation is then active and the generating flag is cleared.
C26_PlainRoundTrip ==
  [][/\ SendAppendsUser
        => /\ Len(currentSession'.messages) > 0
           /\ Last(currentSession'.messages).role = "user"
           /\ Last(currentSession'.messages).content = send'.content
           /\ HasSession(currentSession)
              => currentSession'.messages =
                   Append(Messages, Last(currentSession'.messages))
     /\ PlainSendSucceeds
        => /\ Len(currentSession'.messages) = Len(Messages) + 1
           /\ SubSeq(currentSession'.messages, 1, Len(Messages)) = Messages
           /\ Last(currentSession'.messages).role = "assistant"
           /\ Last(currentSession'.messages).status = "complete"
           /\ Last(currentSession'.messages).content =
                Last(srvItems'[send.conversationId]).content
           /\ StatusOf(conversations', send.conversationId) = "active"
           /\ ~isGenerating'
    ]_vars

\* a delta frame of the stream is handled in this step
DeltaStep ==
  /\ send.pc = "streaming"
  /\ send'.pos = send.pos + 1
  /\ ExtractContentFromChunk(send.script[send.pos + 1]) # <<>>

\* C27: a delta frame of a stream is appended to the content of the
\* placeholder created for that stream, and every other message of the
\* session keeps its content, whatever polls have merged in the meantime.
C27_DeltaToPlaceholderOnly ==
  [][DeltaStep
     => /\ Len(currentSession'.messages) = Len(Messages)
        /\ \A i \in DOMAIN Messages :
             currentSession'.messages[i].content =
               IF Messages[i].id = send.localAssistantId
               THEN Messages[i].content \o ExtractContentFromChunk(send.script[send.pos + 1])
               ELSE Messages[i].content
    ]_vars

\* the stream of the current send was cancelled while it was running
StreamCancelled == hist.cancelled /\ send.localAssistantId # NoId
\* a message left in status streaming that no running stream owns
Orphaned(m) ==
  /\ m.status = "streaming"
  /\ ~(send.pc = "streaming" /\ smAbort = "live" /\ m.id = send.localAssistantId)

\* C28: once cancel was invoked during a stream, no further frame of that
\* stream is handled and no completion is applied: in every later step the
\* placeholder is in the session at the same position with the content it
\* had and status streaming; a placeholder no running stream owns is never
\* changed by a later send either.
C28_CancelFreezesPlaceholder ==
  [][/\ (StreamCancelled /\ send'.localAssistantId = send.localAssistantId)
        => /\ send'.pos = send.pos
           /\ Positions(Messages, {send.localAssistantId}) # {}
           /\ \A i \in Positions(Messages, {send.localAssistantId}) :
                /\ Messages[i].status = "streaming"
                /\ i \in DOMAIN currentSession'.messages
                /\ currentSession'.messages[i] = Messages[i]
     /\ \A i \in DOMAIN Messages :
          Orphaned(Messages[i])
          => /\ i \in DOMAIN currentSession'.messages
             /\ currentSession'.messages[i] = Messages[i]
    ]_vars

\* C28 witness: a stream was cancelled after a delta, the rejected read has
\* been handled, and the placeholder holds the delta in status streaming
C28_Witness ==
  /\ StreamCancelled /\ send.pc = "idle" /\ send.pos > 0
  /\ \E i \in Positions(Messages, {send.localAssistantId}) :
       Messages[i].status = "streaming" /\ Messages[i].content # <<>>

\* the stream controller owns a stream (isStreaming())
IsStreaming == smAbort = "live"

\* C29: the stream controller owns a stream only while the send that
\* started it is reading it, and no send enters startStream or passes the
\* input gate while the controller owns a stream.
C29_OneStreamOwned ==
  /\ [](IsStreaming => send.pc = "streaming")
  /\ [][/\ (send.pc = "requesting" /\ send'.pc = "streaming") => ~IsStreaming
        /\ (count'.sends # count.sends) => ~IsStreaming
       ]_vars

\* C29 witness: the second send of a session owns a stream and has handled
\* a frame of it
C29_Witness ==
  count.sends = 2 /\ send.pc = "streaming" /\ IsStreaming /\ send.pos > 0

C31_ControllerCycle ==
  /\ [](send.pc = "streaming" => (IsStreaming <=> ~hist.cancelled))
  /\ [](send.pc # "streaming" => ~IsStreaming)
  /\ [][/\ (~IsStreaming /\ IsStreaming')
            => (send.pc = "requesting" /\ send'.pc = "streaming")
        /\ (IsStreaming /\ ~IsStreaming')
            => (send'.pc = "idle" \/ hist'.cancelled)
       ]_vars

\* C31 witness: a stream delivered a frame, its read then failed and the
\* error was reported; startStream has settled
C31_Witness ==
  /\ hist.onError /\ send.streaming /\ send.pc = "idle" /\ send.pos > 0
  /\ ~IsStreaming

\* the messages of seq that are in the set kept, in the order of seq
Restrict(seq, kept) == SelectSeq(seq, LAMBDA m : m \in kept)
\* a message but for its id
Body(m) == [role |-> m.role, content |-> m.content, status |-> m.status]

\* C32: when the answer of a poll is applied, every message the session
\* held stays at its position with its role, content and status, and what
\* is added after them are items of the answer, in the order of the answer.
C32_PollMergeAppends ==
  [][\A p \in polls :
       (polls' = polls \ {p})
       => LET old == Messages
              new == currentSession'.messages
              tail == SubSeq(new, Len(old) + 1, Len(new))
          IN /\ Len(new) >= Len(old)
             /\ \A i \in DOMAIN old : Body(new[i]) = Body(old[i])
             /\ tail = Restrict(p.newMessages,
                                { tail[k] : k \in DOMAIN tail })
    ]_vars

\* C32 witness: the answer of a poll was appended after the messages of a
\* turn the session held
C32_Witness ==
  /\ Len(Messages) >= 3
  /\ lastSeenItemId # NoId
  /\ Last(Messages).id = lastSeenItemId
  /\ Messages[1].role = "user" /\ Messages[2].role = "assistant"

\* the ids of the items the service lists for a conversation
ItemIdsOf(c) ==
  IF c \in srvConvs THEN { srvItems[c][i].id : i \in DOMAIN srvItems[c] } ELSE {}

\* C33: the watermark is unset or the id of an item of the active
\* conversation; it does not survive the deletion of the active
\* conversation or the lazy creation of a conversation by send.
C33_WatermarkOfActive ==
  lastSeenItemId # NoId
  => (activeConversation # NoConv /\ lastSeenItemId \in ItemIdsOf(activeConversation))

\* the terminal frames the loop of the current stream has handled: one
\* call of onComplete each
Completions == { k \in 1..send.pos : IsTerminal(send.script[k]) }

\* C34: a stream calls onComplete at most once, and never both onComplete
\* and onError.
C34_CompleteXorError ==
  /\ Cardinality(Completions) <= 1
  /\ ~(Completions # {} /\ hist.onError)

\* C34 witness: a stream has called onComplete and startStream has settled
C34_Witness ==
  /\ send.pc = "idle" /\ send.streaming /\ ~hist.onError /\ ~hist.readFailed
  /\ Cardinality(Completions) = 1

\* startStream settles in this step and cancel was not invoked
SettlesUncancelled ==
  send.pc = "streaming" /\ send'.pc = "idle" /\ ~hist'.cancelled

\* C35: a stream that was not cancelled has called onComplete or onError
\* by the time startStream settles (after that no callback is called), also
\* when the transport closes before a terminal frame.
C35_CallbackBeforeSettling ==
  [][SettlesUncancelled
     => (\E k \in 1..send'.pos : IsTerminal(send'.script[k])) \/ hist'.onError
    ]_vars

\* C36: the generating flag is set only while a send is in flight: when no
\* sendMessage call is running, it is false.
C36_FlagOnlyInFlight == send.pc = "idle" => ~isGenerating

\* C37: the active pointer and the session agree: both are unset, or the
\* session is that of the active conversation and the directory lists it.
C37_PointerAndSessionAgree ==
  \/ activeConversation = NoConv /\ ~HasSession(currentSession)
  \/ /\ activeConversation # NoConv
     /\ currentSession.conversationId = activeConversation
     /\ InDirectory(conversations, activeConversation)

\* C38: the ids of the messages of the session are pairwise distinct, also
\* after the merge of a poll answer that lists the same item twice.
C38_DistinctIds ==
  \A i, k \in DOMAIN Messages : Messages[i].id = Messages[k].id => i = k

\* no send, stream, poll, load or deletion is in progress
Quiescent ==
  /\ send.pc = "idle" /\ polls = {} /\ del.pc = "idle"
  /\ load.pc = "idle" /\ delConv.pc = "idle"
\* the message count the directory shows for a conversation
MessageCountOf(convs, id) ==
  LET i == CHOOSE k \in DOMAIN convs : convs[k].id = id IN convs[i].messageCount

\* C39: whenever nothing is in progress, the message count of the active
\* conversation is the number of messages of the session; a poll whose
\* items are all duplicates of messages held leaves it so.
C39_CountMatchesSession ==
  ( /\ Quiescent
    /\ activeConversation # NoConv
    /\ currentSession.conversationId = activeConversation
    /\ InDirectory(conversations, activeConversation) )
  => MessageCountOf(conversations, activeConversation) = Len(Messages)

====
